---------------------------- MODULE Spec2Model ----------------------------
(* A model of src/playgama_sdk.js: the wrapper around the Playgama          *)
(* bridge.  The module-level variables of the file are the state; every     *)
(* exported function is an operation.  A synchronous function is one        *)
(* action; an async function is one action per stretch of code between two  *)
(* awaits, as the browser's event loop runs it.  The bridge, the VK bridge, *)
(* localStorage and the clock are the environment: their answers are        *)
(* nondeterministic.                                                        *)
EXTENDS Integers, Sequences, FiniteSets, TLC

(***************************************************************************)
(* Program constants                                                       *)
(***************************************************************************)
INTERSTITIAL_COOLDOWN == 90000

SHOP_REWARDED_COOLDOWN == 600000

maxAttempts == 30

(***************************************************************************)
(* Bounds of the model                                                     *)
(***************************************************************************)
\* Number of calls of the exported functions that may be in flight at once.
NumProcs == 2

\* Number of times the clock advances.
MaxTicks == 2

Procs == 1..NumProcs

\* The steps by which Date.now() advances between two events: one
\* millisecond, and one millisecond less than each cooldown.
Deltas == {1, INTERSTITIAL_COOLDOWN - 1, SHOP_REWARDED_COOLDOWN - 1}

\* Date.now() when the page loads.  It counts milliseconds since 1970 and is
\* far larger than either cooldown; the smallest such value is the boundary
\* case of the first request after load.
LoadTime == SHOP_REWARDED_COOLDOWN

\* window.bridge, once the Playgama script has loaded: a bridge on the VK
\* platform, a bridge on another platform, or a partially capable bridge
\* object that has no platform member.
BridgeKinds == {"vk", "web", "noplatform"}

\* How a promise of the bridge settles: it resolves, rejects with an Error,
\* or rejects with no reason (undefined).
Outcomes == {"resolve", "reject_error", "reject_undefined"}

VARIABLES
  bridge,                \* let bridge: "null" or the bridge object (its kind)
  vkBridge,              \* let vkBridge: TRUE when it holds window.vkBridge
  isInitialized,
  languageApplied,
  gameReadySent,
  lastInterstitialTime,
  lastShopRewardedTime,
  isAdsDisabled,
  windowBridge,          \* window.bridge: "undefined" or the bridge object
  now,                   \* Date.now()
  ticks,                 \* how many times the clock has advanced
  localStore,            \* localStorage
  cloud,                 \* what bridge.storage holds
  vkCloud,               \* what the VK storage holds
  call,                  \* the calls in flight, one per slot
  done,                  \* the call that returned in the last step, if any
  hist                   \* history: what has happened so far

vars == <<bridge, vkBridge, isInitialized, languageApplied, gameReadySent,
          lastInterstitialTime, lastShopRewardedTime, isAdsDisabled,
          windowBridge, now, ticks, localStore, cloud, vkCloud,
          call, done, hist>>

moduleVars == <<bridge, vkBridge, isInitialized, languageApplied, gameReadySent,
                lastInterstitialTime, lastShopRewardedTime, isAdsDisabled>>

envVars == <<windowBridge, now, ticks>>

storeVars == <<localStore, cloud, vkCloud>>

(***************************************************************************)
(* Calls                                                                   *)
(***************************************************************************)
\* The value of a call that has not returned, or that returned undefined.
NoRet == [void |-> TRUE]

\* What a call remembers of the state it started in (history only).
NoGhost == [afterShown |-> FALSE, afterShop |-> FALSE, intClear |-> FALSE,
            shopClear |-> FALSE, adsOff |-> FALSE, dev |-> FALSE,
            lastSet |-> FALSE, nullInit |-> FALSE, vkInit |-> "none",
            prev |-> -1, prevEnd |-> -1, saved |-> [kind |-> "none"]]

\* A call: op is the function called, pc the await it is suspended at
\* ("idle" when it has returned), t0 the time it started, out how it ended
\* ("value": returned or resolved; "throw": threw or rejected), ret the
\* value, ev the external calls it made and messages it sent, in order, wr
\* the module variables it assigned, attempts/tmp/data its locals.
Idle == [op |-> "none", pc |-> "idle", t0 |-> 0, out |-> "none",
         ret |-> NoRet, ev |-> <<>>, wr |-> {}, attempts |-> 0,
         tmp |-> "null", data |-> NoRet, g |-> NoGhost]

\* Only what the claims about a function need is remembered for its calls.
GhostNow(op) ==
  [NoGhost EXCEPT
     !.afterShown = op = "showInterstitialAd" /\ hist.intShownRet >= 0
                      /\ now - hist.intShownRet < INTERSTITIAL_COOLDOWN,
     !.afterShop  = op = "showShopRewardedAd" /\ hist.shopTrueRet >= 0
                      /\ now - hist.shopTrueRet < SHOP_REWARDED_COOLDOWN,
     !.intClear   = op = "showInterstitialAd"
                      /\ (hist.intResolved < 0
                          \/ now - hist.intResolved >= INTERSTITIAL_COOLDOWN),
     !.shopClear  = op = "showShopRewardedAd"
                      /\ (hist.shopTrueRet < 0
                          \/ now - hist.shopTrueRet >= SHOP_REWARDED_COOLDOWN),
     !.adsOff     = op = "showInterstitialAd" /\ isAdsDisabled,
     !.dev        = bridge = "null",
     !.lastSet    = op \in {"isAdsDisabledByPurchase", "showInterstitialAd"}
                      /\ hist.lastSet,
     !.nullInit   = hist.initNull,
     !.vkInit     = IF op \in {"savePlayerData", "loadPlayerData"}
                      THEN hist.vkInit ELSE "none",
     !.prev       = IF op = "showInterstitialAd" THEN hist.intStart
                    ELSE IF op = "showShopRewardedAd" THEN hist.shopTrueRet
                    ELSE -1,
     !.saved      = IF op = "loadPlayerData" THEN hist.saved
                    ELSE [kind |-> "none"]]

Begin(op) == [Idle EXCEPT !.op = op, !.g = GhostNow(op)]

Return(c, r) == [c EXCEPT !.pc = "idle", !.out = "value", !.ret = r]

Throw(c) == [c EXCEPT !.pc = "idle", !.out = "throw", !.ret = NoRet]

Did(c, e) == [c EXCEPT !.ev = Append(@, e)]

Wrote(c, v) == [c EXCEPT !.wr = @ \cup {v}]

Free(p) == call[p].pc = "idle"

Has(c, e) == \E i \in 1..Len(c.ev) : c.ev[i] = e

\* The call in slot p goes on as c: it has returned (and leaves the slot),
\* or it is suspended at an await.
Step(p, c) ==
  IF c.pc = "idle"
    THEN call' = [call EXCEPT ![p] = Idle] /\ done' = c
    ELSE call' = [call EXCEPT ![p] = c] /\ done' = Idle

\* A synchronous function ran and returned as c.
Sync(c) == done' = c /\ call' = call

(***************************************************************************)
(* The bridge object                                                       *)
(***************************************************************************)
\* bridge.platform is an object (reading bridge.platform.id does not throw)
HasPlatform(b) == b \in {"vk", "web"}

\* bridge.platform.id === 'vk'
PlatformIsVK(b) == b = "vk"

\* bridge.platform.sendMessage(m) inside try/catch: the message goes out
\* when sendMessage can be reached; the TypeError on a bridge without
\* platform is caught and only logged.
SendMessage(c, m) == IF HasPlatform(bridge) THEN Did(c, m) ELSE c

\* gameplayStart() and gameplayStop(), called from another function.
Gameplay(c, m) == IF bridge = "null" THEN c ELSE SendMessage(c, m)

\* How many messages gameplayStart() or gameplayStop() sends: 1 or 0.
Sent(c, m) == Len(Gameplay(c, m).ev) - Len(c.ev)

(***************************************************************************)
(* Initial state                                                           *)
(***************************************************************************)
NoHist == [intShownRet |-> -1, intResolved |-> -1, shopTrueRet |-> -1,
           intStart |-> -1, lastSet |-> FALSE, initNull |-> FALSE,
           initOk |-> FALSE, paused |-> 0, vkInit |-> "none",
           gameReady |-> 0, saved |-> [kind |-> "none"]]

InitModule ==
  /\ bridge = "null"
  /\ vkBridge = FALSE
  /\ isInitialized = FALSE
  /\ languageApplied = FALSE
  /\ gameReadySent = FALSE
  /\ lastInterstitialTime = 0
  /\ lastShopRewardedTime = 0
  /\ isAdsDisabled = FALSE

InitEnv ==
  /\ windowBridge \in {"undefined"} \cup BridgeKinds
  /\ now = LoadTime
  /\ ticks = 0
  /\ localStore \in [access : BOOLEAN, cloudSave : {[kind |-> "absent"]},
                     gameCoins : {"absent", "7"},
                     maxLevel : {"absent", "abc"}]
  /\ cloud = [kind |-> "undefined"]
  /\ vkCloud = [k \in {"coins", "hints", "undos", "maxLevel", "noAds"} |-> ""]
  /\ call = [p \in Procs |-> Idle]
  /\ done = Idle
  /\ hist = NoHist

Init == InitModule /\ InitEnv

(***************************************************************************)
(* The environment                                                         *)
(***************************************************************************)
\* Time passes: Date.now() advances by one of the steps D.
TickBy(D) ==
  /\ ticks < MaxTicks
  /\ \E d \in D : now' = now + d
  /\ ticks' = ticks + 1
  /\ done' = Idle
  /\ UNCHANGED <<moduleVars, windowBridge, storeVars, call, hist>>

Tick == TickBy(Deltas)

TickInterstitial == TickBy({1, INTERSTITIAL_COOLDOWN - 1})

TickShop == TickBy({1, SHOP_REWARDED_COOLDOWN - 1})

\* Time passes until both cooldowns are over.
TickWindow == TickBy({SHOP_REWARDED_COOLDOWN})

\* The Playgama script finishes loading and defines window.bridge.
BridgeAppears ==
  /\ windowBridge = "undefined"
  /\ windowBridge' \in BridgeKinds
  /\ done' = Idle
  /\ UNCHANGED <<moduleVars, now, ticks, storeVars, call, hist>>

(***************************************************************************)
(* initPlaygamaSDK and waitForBridge                                       *)
(***************************************************************************)
\* initPlaygamaSDK up to the await of waitForBridge().  waitForBridge
\* resolves at once when window.bridge is defined and starts polling
\* otherwise.
InitStart(p) ==
  /\ Free(p)
  /\ LET c == Begin("initPlaygamaSDK") IN
       Step(p, IF isInitialized /\ bridge # "null"
                 THEN Return(c, [bridge |-> bridge])
               ELSE IF windowBridge # "undefined"
                 THEN [c EXCEPT !.pc = "init_found", !.tmp = windowBridge]
               ELSE [c EXCEPT !.pc = "init_poll"])
  /\ hist' = IF isInitialized /\ bridge # "null"
               THEN [hist EXCEPT !.initNull = FALSE] ELSE hist
  /\ UNCHANGED <<moduleVars, envVars, storeVars>>

\* Mutant: the callback gives up one firing later.
GaveUp_Late(attempts) == attempts > maxAttempts

\* attempts >= maxAttempts
GaveUp(attempts) == attempts >= maxAttempts

\* One firing of the setInterval callback of waitForBridge.
InitPoll(p) ==
  /\ call[p].pc = "init_poll"
  /\ LET c == [call[p] EXCEPT !.attempts = @ + 1] IN
       Step(p, IF windowBridge # "undefined"
                 THEN [c EXCEPT !.pc = "init_found", !.tmp = windowBridge]
               ELSE IF GaveUp(c.attempts)
                 THEN [c EXCEPT !.pc = "init_found", !.tmp = "null"]
               ELSE c)
  /\ UNCHANGED <<moduleVars, envVars, storeVars, hist>>

\* bridge = await waitForBridge(), up to the await of bridge.initialize().
InitFound(p) ==
  /\ call[p].pc = "init_found"
  /\ bridge' = call[p].tmp
  /\ LET c == Wrote(call[p], "bridge") IN
       IF call[p].tmp = "null"
         THEN /\ isInitialized' = TRUE
              /\ Step(p, Return(c, [bridge |-> "null"]))
              /\ hist' = [hist EXCEPT !.initNull = TRUE]
         ELSE /\ isInitialized' = isInitialized
              /\ Step(p, [Did(c, "initialize") EXCEPT !.pc = "init_initialize"])
              /\ hist' = hist
  /\ UNCHANGED <<vkBridge, languageApplied, gameReadySent,
                 lastInterstitialTime, lastShopRewardedTime, isAdsDisabled,
                 envVars, storeVars>>

\* await bridge.initialize() settles; up to the await of VKWebAppInit.  A
\* rejection, and the TypeError of reading bridge.platform.id on a bridge
\* without platform, both end in the catch block.  window.vkBridge is read
\* here and nowhere else: whether the VK script has defined it by now is
\* the environment's choice (windowVk).
InitInitialized(p) ==
  /\ call[p].pc = "init_initialize"
  /\ isInitialized' = TRUE
  /\ \E o \in Outcomes, windowVk \in BOOLEAN :
       IF o # "resolve" \/ ~HasPlatform(bridge)
         THEN /\ Step(p, Return(call[p], [bridge |-> "null"]))
              /\ hist' = [hist EXCEPT !.initNull = TRUE]
              /\ vkBridge' = vkBridge
       ELSE IF PlatformIsVK(bridge) /\ windowVk
         THEN /\ vkBridge' = TRUE
              /\ Step(p, [Did(Wrote(call[p], "vkBridge"), "VKWebAppInit")
                            EXCEPT !.pc = "init_vk"])
              /\ hist' = hist
       ELSE /\ Step(p, Return(call[p], [bridge |-> bridge]))
            /\ hist' = [hist EXCEPT !.initNull = FALSE, !.initOk = TRUE]
            /\ vkBridge' = vkBridge
  /\ UNCHANGED <<bridge, languageApplied, gameReadySent,
                 lastInterstitialTime, lastShopRewardedTime, isAdsDisabled,
                 envVars, storeVars>>

\* await vkBridge.send('VKWebAppInit') settles.
InitVk(p) ==
  /\ call[p].pc = "init_vk"
  /\ \E o \in Outcomes :
       /\ vkBridge' = IF o = "resolve" THEN vkBridge ELSE FALSE
       /\ Step(p, Return(IF o = "resolve" THEN call[p]
                         ELSE Wrote(call[p], "vkBridge"),
                         [bridge |-> bridge]))
  /\ hist' = [hist EXCEPT !.initNull = (bridge = "null"), !.initOk = TRUE,
                          !.vkInit = IF vkBridge' THEN "resolved"
                                     ELSE "rejected"]
  /\ UNCHANGED <<bridge, isInitialized, languageApplied, gameReadySent,
                 lastInterstitialTime, lastShopRewardedTime, isAdsDisabled,
                 envVars, storeVars>>

(***************************************************************************)
(* Messages to the platform                                                *)
(***************************************************************************)
Min(a, b) == IF a < b THEN a ELSE b

Max(a, b) == IF a < b THEN b ELSE a

Abs(a) == IF a < 0 THEN -a ELSE a

SendGameReadyOnce ==
  /\ gameReadySent' = TRUE
  /\ LET c == Begin("sendGameReadyOnce") IN
       Sync(IF gameReadySent THEN Return(c, NoRet)
            ELSE Return(Gameplay(Wrote(c, "gameReadySent"), "game_ready"),
                        NoRet))
  /\ hist' = IF ~gameReadySent /\ HasPlatform(bridge)
               THEN [hist EXCEPT !.gameReady = Min(@ + 1, 2)] ELSE hist
  /\ UNCHANGED <<bridge, vkBridge, isInitialized, languageApplied,
                 lastInterstitialTime, lastShopRewardedTime, isAdsDisabled,
                 envVars, storeVars>>

GameplayStart ==
  /\ Sync(Return(Gameplay(Begin("gameplayStart"), "gameplay_started"), NoRet))
  /\ UNCHANGED <<moduleVars, envVars, storeVars, hist>>

GameplayStop ==
  /\ Sync(Return(Gameplay(Begin("gameplayStop"), "gameplay_stopped"), NoRet))
  /\ UNCHANGED <<moduleVars, envVars, storeVars, hist>>

(***************************************************************************)
(* Advertisement                                                           *)
(***************************************************************************)
\* Mutant: the purchase does not switch the interstitials off.
AdsGate_Off == FALSE

\* if (isAdsDisabled)
AdsGate == isAdsDisabled

\* Mutant: the window is closed at its end as well.
InterstitialCooldownActive_Inclusive(t) ==
  t - lastInterstitialTime <= INTERSTITIAL_COOLDOWN

\* now - lastInterstitialTime < INTERSTITIAL_COOLDOWN
InterstitialCooldownActive(t) ==
  t - lastInterstitialTime < INTERSTITIAL_COOLDOWN

\* Mutant: a shown interstitial is not recorded.
RecordedInterstitialTime_Stale == lastInterstitialTime

\* lastInterstitialTime = Date.now()
RecordedInterstitialTime == now

\* Mutant: the shop uses the interstitial's window.
ShopCooldownActive_WrongWindow(t) ==
  t - lastShopRewardedTime < INTERSTITIAL_COOLDOWN

\* timeSinceLastAd < SHOP_REWARDED_COOLDOWN
ShopCooldownActive(t) == t - lastShopRewardedTime < SHOP_REWARDED_COOLDOWN

\* Math.ceil(a / b)
Ceil(a, b) == (a + b - 1) \div b

\* Math.ceil((SHOP_REWARDED_COOLDOWN - timeSinceLastAd) / 1000)
RemainingTime(t) ==
  Ceil(SHOP_REWARDED_COOLDOWN - (t - lastShopRewardedTime), 1000)

\* lastShopRewardedTime = Date.now()
RecordedShopTime == now

\* showInterstitialAd up to the await of showInterstitial().
ShowInterstitialAd(p) ==
  /\ Free(p)
  /\ LET c == Begin("showInterstitialAd") IN
       IF AdsGate \/ InterstitialCooldownActive(now)
         THEN /\ Step(p, Return(c, [shown |-> FALSE]))
              /\ hist' = hist
       ELSE IF bridge = "null"
         THEN /\ Step(p, Return(c, [shown |-> TRUE]))
              /\ hist' = [hist EXCEPT !.intShownRet = now]
       ELSE /\ Step(p, [Did(Gameplay(c, "gameplay_stopped"),
                            "showInterstitial")
                          EXCEPT !.pc = "int_await", !.t0 = now])
            /\ hist' = [hist EXCEPT !.paused = @ + Sent(c, "gameplay_stopped")]
  /\ UNCHANGED <<moduleVars, envVars, storeVars>>

\* await bridge.advertisement.showInterstitial() settles.
InterstitialSettles(p) ==
  /\ call[p].pc = "int_await"
  /\ \E o \in Outcomes :
       IF o = "resolve"
         THEN /\ lastInterstitialTime' = RecordedInterstitialTime
              /\ Step(p, Return(Gameplay(Wrote([call[p] EXCEPT
                                                 !.g.prevEnd = hist.intStart],
                                               "lastInterstitialTime"),
                                         "gameplay_started"),
                                [shown |-> TRUE]))
              /\ hist' = [hist EXCEPT !.intShownRet = now,
                                      !.intResolved = now,
                                      !.intStart = Max(@, call[p].t0),
                                      !.paused =
                                        @ - Sent(call[p], "gameplay_started")]
         ELSE /\ lastInterstitialTime' = lastInterstitialTime
              /\ Step(p, Return(Gameplay(Did(call[p],
                                             "reject:showInterstitial"),
                                         "gameplay_started"),
                                [shown |-> FALSE]))
              /\ hist' = [hist EXCEPT !.paused =
                                        @ - Sent(call[p], "gameplay_started")]
  /\ UNCHANGED <<bridge, vkBridge, isInitialized, languageApplied,
                 gameReadySent, lastShopRewardedTime, isAdsDisabled,
                 envVars, storeVars>>

\* Mutant: showRewardedAd does not look whether there is a bridge.
NoBridge_NotChecked == FALSE

\* if (!bridge), in showRewardedAd
NoBridge == bridge = "null"

\* showRewardedAd up to the await of showRewarded().
ShowRewardedAd(p) ==
  /\ Free(p)
  /\ LET c == Begin("showRewardedAd") IN
       /\ Step(p, IF NoBridge THEN Return(c, [rewarded |-> TRUE])
                  ELSE [Did(Gameplay(c, "gameplay_stopped"), "showRewarded")
                          EXCEPT !.pc = "rew_await"])
       /\ hist' = IF NoBridge THEN hist
                  ELSE [hist EXCEPT !.paused = @ + Sent(c, "gameplay_stopped")]
  /\ UNCHANGED <<moduleVars, envVars, storeVars>>

\* await bridge.advertisement.showRewarded() settles.
RewardedSettles(p) ==
  /\ call[p].pc = "rew_await"
  /\ \E o \in Outcomes :
       Step(p, Return(Gameplay(IF o = "resolve" THEN call[p]
                               ELSE Did(call[p], "reject:showRewarded"),
                               "gameplay_started"),
                      [rewarded |-> (o = "resolve")]))
  /\ hist' = [hist EXCEPT !.paused = @ - Sent(call[p], "gameplay_started")]
  /\ UNCHANGED <<moduleVars, envVars, storeVars>>

\* showShopRewardedAd up to its await of showRewardedAd('shop_coins'), whose
\* own code up to its await runs in the same stretch.
ShowShopRewardedAd(p) ==
  /\ Free(p)
  /\ LET c == Begin("showShopRewardedAd") IN
       /\ Step(p, IF ShopCooldownActive(now)
                    THEN Return(c, [rewarded |-> FALSE, cooldown |-> TRUE,
                                    remainingTime |-> RemainingTime(now)])
                  ELSE IF NoBridge
                    THEN [c EXCEPT !.pc = "shop_result", !.tmp = "rewarded"]
                  ELSE [Did(Gameplay(c, "gameplay_stopped"), "showRewarded")
                          EXCEPT !.pc = "shop_rew_await"])
       /\ hist' = IF ShopCooldownActive(now) \/ NoBridge THEN hist
                  ELSE [hist EXCEPT !.paused = @ + Sent(c, "gameplay_stopped")]
  /\ UNCHANGED <<moduleVars, envVars, storeVars>>

\* The inner showRewardedAd: await showRewarded() settles and it returns.
ShopRewardedSettles(p) ==
  /\ call[p].pc = "shop_rew_await"
  /\ \E o \in Outcomes :
       Step(p, [Gameplay(call[p], "gameplay_started")
                  EXCEPT !.pc = "shop_result",
                         !.tmp = IF o = "resolve" THEN "rewarded"
                                 ELSE "failed"])
  /\ hist' = [hist EXCEPT !.paused = @ - Sent(call[p], "gameplay_started")]
  /\ UNCHANGED <<moduleVars, envVars, storeVars>>

\* Mutant: the shop records an advertisement that gave no reward.
ResultRewarded_Ignored(c) == TRUE

\* if (result.rewarded)
ResultRewarded(c) == c.tmp = "rewarded"

\* const result = await showRewardedAd('shop_coins') resumes.
ShopResult(p) ==
  /\ call[p].pc = "shop_result"
  /\ LET r == [rewarded |-> call[p].tmp = "rewarded", cooldown |-> FALSE,
               remainingTime |-> 0]
     IN IF ResultRewarded(call[p])
          THEN /\ lastShopRewardedTime' = RecordedShopTime
               /\ Step(p, Return(Wrote(call[p], "lastShopRewardedTime"), r))
          ELSE /\ lastShopRewardedTime' = lastShopRewardedTime
               /\ Step(p, Return(call[p], r))
  /\ hist' = IF call[p].tmp = "rewarded"
               THEN [hist EXCEPT !.shopTrueRet = now] ELSE hist
  /\ UNCHANGED <<bridge, vkBridge, isInitialized, languageApplied,
                 gameReadySent, lastInterstitialTime, isAdsDisabled,
                 envVars, storeVars>>

\* getShopRewardedCooldown
GetShopRewardedCooldown ==
  /\ Sync(Return(Begin("getShopRewardedCooldown"),
                 [value |-> IF ~ShopCooldownActive(now) THEN 0
                            ELSE RemainingTime(now)]))
  /\ UNCHANGED <<moduleVars, envVars, storeVars, hist>>

\* setAdsDisabled(disabled)
SetAdsDisabled ==
  /\ \E disabled \in BOOLEAN :
       /\ isAdsDisabled' = disabled
       /\ hist' = [hist EXCEPT !.lastSet = disabled]
  /\ Sync(Return(Wrote(Begin("setAdsDisabled"), "isAdsDisabled"), NoRet))
  /\ UNCHANGED <<bridge, vkBridge, isInitialized, languageApplied,
                 gameReadySent, lastInterstitialTime, lastShopRewardedTime,
                 envVars, storeVars>>

\* isAdsDisabledByPurchase
IsAdsDisabledByPurchase ==
  /\ Sync(Return(Begin("isAdsDisabledByPurchase"),
                 [value |-> isAdsDisabled]))
  /\ UNCHANGED <<moduleVars, envVars, storeVars, hist>>

(***************************************************************************)
(* JavaScript values, JSON and the VK storage format                       *)
(***************************************************************************)
\* The properties of the player data.
Fields == {"coins", "hints", "undos", "maxLevel", "noAds"}

\* A property's value is written as JavaScript prints it; "absent" stands
\* for a property the object does not have.
Obj(c, h, u, m, n) ==
  [kind |-> "object",
   f |-> [coins |-> c, hints |-> h, undos |-> u, maxLevel |-> m, noAds |-> n]]

Null == [kind |-> "null"]

Undefined == [kind |-> "undefined"]

EmptyObj == Obj("absent", "absent", "absent", "absent", "absent")

\* The values savePlayerData is called with.
SaveInputs ==
  { Obj("7", "absent", "absent", "7", "true"),
    Obj("0", "absent", "absent", "absent", "false"),
    Obj("NaN", "absent", "absent", "absent", "absent"),
    Obj("undefined", "absent", "absent", "7", "absent"),
    EmptyObj,
    Null }

\* Two of them: a player's data, and no data at all.
PlainInputs == {Obj("7", "absent", "absent", "7", "true"), Null}

\* !!v for a property value
Truthy(v) == v \notin {"0", "NaN", "false", "null", "undefined", "absent", ""}

\* JSON.stringify drops a property whose value is undefined and writes
\* NaN as null.
JsonProperty(v) ==
  CASE v = "undefined" -> "absent"
    [] v = "NaN" -> "null"
    [] OTHER -> v

\* Mutant: JSON.stringify writes a number that is 0 as null.
JSONstringify_ZeroLost(d) ==
  IF d.kind = "object"
    THEN [kind |-> "json",
          v |-> [kind |-> "object",
                 f |-> [k \in Fields |->
                          IF d.f[k] = "0" THEN "null"
                          ELSE JsonProperty(d.f[k])]]]
  ELSE IF d.kind = "null" THEN [kind |-> "json", v |-> Null]
  ELSE [kind |-> "raw"]

\* localStorage.setItem('cloudSave', JSON.stringify(data)): the text that
\* is stored.  A JSON text is named by the value it denotes;
\* JSON.stringify(undefined) is undefined, stored as the text "undefined",
\* which is no JSON.
JSONstringify(d) ==
  IF d.kind = "object"
    THEN [kind |-> "json",
          v |-> [kind |-> "object",
                 f |-> [k \in Fields |-> JsonProperty(d.f[k])]]]
  ELSE IF d.kind = "null" THEN [kind |-> "json", v |-> Null]
  ELSE [kind |-> "raw"]

NoText == [kind |-> "absent"]

\* saved ? JSON.parse(saved) : {}, inside try/catch: JSON.parse of a text
\* that is no JSON throws, and {} is returned.
ParseSaved(saved) ==
  IF saved.kind = "json" THEN saved.v ELSE EmptyObj

\* String(value)
String(v) == v

\* parseInt(text, 10)
ParseInt(t) ==
  CASE t \in {"0", "7", "1"} -> t
    [] t = "1.5" -> "1"
    [] OTHER -> "NaN"

\* What VKWebAppStorageSet is sent for a property: nothing when it is
\* undefined, else the key's text.
VkText(k, v) ==
  IF k = "noAds" THEN (IF Truthy(v) THEN "1" ELSE "0") ELSE String(v)

\* data.k !== undefined
IsSent(d, k) == d.f[k] \notin {"absent", "undefined"}

\* The object loadPlayerData builds from result.keys: a key whose value is
\* the empty text is skipped.
VkParse(store) ==
  [kind |-> "object",
   f |-> [k \in Fields |->
            IF store[k] = "" THEN "absent"
            ELSE IF k = "noAds"
              THEN (IF store[k] = "1" THEN "true" ELSE "false")
            ELSE ParseInt(store[k])]]

\* Object.keys(data).length === 0
IsEmptyObj(d) == \A k \in Fields : d.f[k] = "absent"

\* syncData, from the legacy keys gameCoins and maxLevel of localStorage
SyncData(localCoins, localMaxLevel) ==
  Obj(IF localCoins \notin {"absent", ""} THEN ParseInt(localCoins)
      ELSE "absent",
      "absent", "absent",
      IF localMaxLevel \notin {"absent", ""} THEN ParseInt(localMaxLevel)
      ELSE "absent",
      "absent")

\* Mutant: a falsy answer of bridge.storage.get() is passed on.
LoadedOrEmpty_PassOn(v) == v

\* data || {}
LoadedOrEmpty(v) == IF v.kind = "object" THEN v ELSE EmptyObj

(***************************************************************************)
(* savePlayerData and loadPlayerData                                       *)
(***************************************************************************)
\* if (vkBridge && bridge && bridge.platform.id === 'vk'), which is not
\* inside a try block: "throw" when bridge.platform cannot be read.
VkRoute ==
  IF ~vkBridge \/ bridge = "null" THEN "generic"
  ELSE IF ~HasPlatform(bridge) THEN "throw"
  ELSE IF PlatformIsVK(bridge) THEN "vk" ELSE "generic"

\* What the call returns when its save has ended with result ok:
\* savePlayerData returns ok; loadPlayerData, which saved syncData, returns
\* syncData whatever became of the save.
SaveEnds(c, ok) ==
  IF c.op = "savePlayerData" THEN Return(c, [value |-> ok])
  ELSE Return(c, c.data)

\* localStorage.setItem('cloudSave', JSON.stringify(data)) succeeds: the
\* page may use localStorage at all (access, which does not change while
\* the page lives), and this item was taken (stored; the quota may be
\* exceeded).
SetItemWorks(stored) == localStore.access /\ stored

\* savePlayerData(c.data) from "Используем Playgama storage" on: without a
\* bridge localStorage is written (stored: setItem did not throw), with
\* one bridge.storage.set is awaited.
SaveGeneric(p, c, stored) ==
  IF bridge = "null"
    THEN /\ localStore' =
              IF SetItemWorks(stored)
                THEN [localStore EXCEPT !.cloudSave = JSONstringify(c.data)]
                ELSE localStore
         /\ Step(p, SaveEnds(c, SetItemWorks(stored)))
         /\ hist' = [hist EXCEPT !.saved =
                       IF SetItemWorks(stored) /\ c.op = "savePlayerData"
                         THEN c.data ELSE [kind |-> "none"]]
    ELSE /\ localStore' = localStore
         /\ Step(p, [Did(c, "storage.set") EXCEPT !.pc = "save_set"])
         /\ hist' = [hist EXCEPT !.saved = [kind |-> "none"]]

\* The VKWebAppStorageSet requests of savePlayerData(c.data), one for each
\* property that is not undefined, and the await of Promise.all.  Reading a
\* property of null throws inside the try block.
SaveVk(p, c, stored) ==
  IF c.data.kind # "object"
    THEN SaveGeneric(p, c, stored)
    ELSE /\ localStore' = localStore
         /\ Step(p, [(IF \E k \in Fields : IsSent(c.data, k)
                        THEN Did(c, "VKWebAppStorageSet") ELSE c)
                       EXCEPT !.pc = "save_vk"])
         /\ hist' = [hist EXCEPT !.saved = [kind |-> "none"]]

\* savePlayerData(c.data) up to its first await.
SaveBegin(p, c, stored) ==
  CASE VkRoute = "throw" ->
         /\ Step(p, Throw(c))
         /\ UNCHANGED <<localStore, hist>>
    [] VkRoute = "vk" -> SaveVk(p, c, stored)
    [] OTHER -> SaveGeneric(p, c, stored)

\* savePlayerData(data), for data in D
SaveOneOf(D, p) ==
  /\ Free(p)
  /\ \E d \in D, stored \in BOOLEAN :
       SaveBegin(p, [Begin("savePlayerData") EXCEPT !.data = d], stored)
  /\ UNCHANGED <<moduleVars, envVars, cloud, vkCloud>>

SavePlayerData(p) == SaveOneOf(SaveInputs, p)

\* savePlayerData(data) with data that every storage takes as it is
SavePlainData(p) == SaveOneOf(PlainInputs, p)

\* Mutant: one request that succeeded is enough.
AllSucceeded_AnyOne(ok, sent) == ok # {} \/ sent = {}

\* Promise.all(savePromises) is fulfilled: every request sent succeeded.
AllSucceeded(ok, sent) == ok = sent

\* await Promise.all(savePromises) settles: the requests in ok succeeded
\* and are stored; when one was rejected the catch block falls through to
\* the Playgama storage.
SaveVkSettles(p) ==
  /\ call[p].pc = "save_vk"
  /\ LET c == call[p]
         sent == {k \in Fields : IsSent(c.data, k)}
     IN \E ok \in SUBSET sent, stored \in BOOLEAN :
          /\ vkCloud' = [k \in Fields |->
                           IF k \in ok THEN VkText(k, c.data.f[k])
                           ELSE vkCloud[k]]
          /\ IF AllSucceeded(ok, sent)
               THEN /\ Step(p, SaveEnds(c, TRUE))
                    /\ UNCHANGED <<localStore, hist>>
               ELSE SaveGeneric(p, Did(c, "reject:VKWebAppStorageSet"),
                                stored)
  /\ UNCHANGED <<moduleVars, envVars, cloud>>

\* await bridge.storage.set(data) settles.
SaveSetSettles(p) ==
  /\ call[p].pc = "save_set"
  /\ \E o \in Outcomes :
       IF o = "resolve"
         THEN /\ cloud' = call[p].data
              /\ Step(p, SaveEnds(call[p], TRUE))
         ELSE /\ cloud' = cloud
              /\ Step(p, SaveEnds(Did(call[p], "reject:storage.set"), FALSE))
  /\ UNCHANGED <<moduleVars, envVars, localStore, vkCloud, hist>>

\* loadPlayerData from "Используем Playgama storage" on: without a bridge
\* localStorage is read inside try/catch, with one bridge.storage.get is
\* awaited.
LoadGeneric(p, c) ==
  IF bridge = "null"
    THEN Step(p, Return(c, IF localStore.access
                             THEN ParseSaved(localStore.cloudSave)
                           ELSE EmptyObj))
    ELSE Step(p, [Did(c, "storage.get") EXCEPT !.pc = "load_get"])

\* loadPlayerData()
LoadPlayerData(p) ==
  /\ Free(p)
  /\ LET c == Begin("loadPlayerData") IN
       CASE VkRoute = "throw" -> Step(p, Throw(c))
         [] VkRoute = "vk" ->
              Step(p, [Did(c, "VKWebAppStorageGet") EXCEPT !.pc = "load_vk"])
         [] OTHER -> LoadGeneric(p, c)
  /\ UNCHANGED <<moduleVars, envVars, storeVars, hist>>

\* await vkBridge.send('VKWebAppStorageGet') settles.  A rejection, and
\* localStorage.getItem throwing, end in the catch block, which falls
\* through to the Playgama storage.  An empty cloud with legacy data in
\* localStorage starts savePlayerData(syncData).
LoadVkSettles(p) ==
  /\ call[p].pc = "load_vk"
  /\ \E o \in Outcomes, stored \in BOOLEAN :
       LET c == call[p]
           data == VkParse(vkCloud)
           sync == SyncData(localStore.gameCoins, localStore.maxLevel)
       IN IF o # "resolve"
            THEN /\ LoadGeneric(p, Did(c, "reject:VKWebAppStorageGet"))
                 /\ UNCHANGED <<localStore, hist>>
          ELSE IF ~IsEmptyObj(data)
            THEN /\ Step(p, Return(c, data))
                 /\ UNCHANGED <<localStore, hist>>
          ELSE IF ~localStore.access
            THEN /\ LoadGeneric(p, c)
                 /\ UNCHANGED <<localStore, hist>>
          ELSE IF IsEmptyObj(sync)
            THEN /\ Step(p, Return(c, data))
                 /\ UNCHANGED <<localStore, hist>>
          ELSE SaveBegin(p, [c EXCEPT !.data = sync], stored)
  /\ UNCHANGED <<moduleVars, envVars, cloud, vkCloud>>

\* The answer of bridge.storage.get(): what bridge.storage.set stored, and
\* undefined or null when nothing was.
StorageGetAnswers == IF cloud.kind = "undefined" THEN {Undefined, Null}
                     ELSE {cloud}

\* await bridge.storage.get() settles.
LoadGetSettles(p) ==
  /\ call[p].pc = "load_get"
  /\ \E o \in Outcomes, v \in StorageGetAnswers :
       Step(p, IF o # "resolve"
                 THEN Return(Did(call[p], "reject:storage.get"), EmptyObj)
               ELSE Return(IF v.kind = "object" THEN call[p]
                           ELSE Did(call[p], "falsy:storage.get"),
                           LoadedOrEmpty(v)))
  /\ UNCHANGED <<moduleVars, envVars, storeVars, hist>>

(***************************************************************************)
(* Purchases, the VK platform, and the compatibility stubs                 *)
(***************************************************************************)
\* makePurchase(productId) up to the await of bridge.payments.purchase().
MakePurchase(p) ==
  /\ Free(p)
  /\ LET c == Begin("makePurchase") IN
       Step(p, IF bridge = "null"
                 THEN Return(c, [success |-> TRUE, bonuses |-> "{}"])
               ELSE [Did(c, "purchase") EXCEPT !.pc = "purchase_await"])
  /\ UNCHANGED <<moduleVars, envVars, storeVars, hist>>

\* What the catch block of makePurchase does with the rejection: it reads
\* error.message, which throws when the reason is undefined.
PurchaseFailed(c, o) ==
  IF o = "reject_undefined" THEN Throw(c)
  ELSE Return(c, [success |-> FALSE, error |-> "message"])

\* await bridge.payments.purchase() settles.
PurchaseSettles(p) ==
  /\ call[p].pc = "purchase_await"
  /\ \E o \in Outcomes :
       Step(p, IF o = "resolve"
                 THEN Return(call[p], [success |-> TRUE, bonuses |-> "result"])
               ELSE PurchaseFailed(Did(call[p], "reject:purchase"), o))
  /\ UNCHANGED <<moduleVars, envVars, storeVars, hist>>

\* isVKPlatform(): "throw" when bridge.platform cannot be read.
VKPlatform ==
  IF bridge = "null" THEN "false"
  ELSE IF ~HasPlatform(bridge) THEN "throw"
  ELSE IF PlatformIsVK(bridge) THEN "true" ELSE "false"

IsVKPlatform ==
  /\ LET c == Begin("isVKPlatform") IN
       Sync(IF VKPlatform = "throw" THEN Throw(c)
            ELSE Return(c, [value |-> VKPlatform = "true"]))
  /\ UNCHANGED <<moduleVars, envVars, storeVars, hist>>

\* showStickyBanner from "Проверяем Playgama Bridge" on: showSticky() is
\* awaited when the bridge has it.
StickyPlaygama(c, hasSticky) ==
  IF hasSticky THEN [Did(c, "showSticky") EXCEPT !.pc = "sticky_await"]
  ELSE Return(c, [value |-> FALSE])

\* showStickyBanner() up to its first await; whether bridge.advertisement
\* has showSticky is the bridge's choice.
ShowStickyBanner(p) ==
  /\ Free(p)
  /\ \E hasSticky \in BOOLEAN :
       LET c == Begin("showStickyBanner") IN
         Step(p, IF bridge = "null" THEN Return(c, [value |-> FALSE])
                 ELSE IF VKPlatform = "throw" THEN Throw(c)
                 ELSE IF VKPlatform = "false" THEN Return(c, [value |-> FALSE])
                 ELSE IF vkBridge
                   THEN [Did(c, "VKWebAppShowBannerAd")
                           EXCEPT !.pc = "sticky_vk"]
                 ELSE StickyPlaygama(c, hasSticky))
  /\ UNCHANGED <<moduleVars, envVars, storeVars, hist>>

\* await vkBridge.send('VKWebAppShowBannerAd') settles.  The inner catch
\* block reads vkError.error_data, which throws when the reason is
\* undefined; the outer catch block then returns false.
StickyVkSettles(p) ==
  /\ call[p].pc = "sticky_vk"
  /\ \E o \in Outcomes, hasSticky \in BOOLEAN :
       Step(p, CASE o = "resolve" -> Return(call[p], [value |-> TRUE])
                 [] o = "reject_undefined" ->
                      Return(Did(call[p], "reject:VKWebAppShowBannerAd"),
                             [value |-> FALSE])
                 [] OTHER ->
                      StickyPlaygama(Did(call[p],
                                         "reject:VKWebAppShowBannerAd"),
                                     hasSticky))
  /\ UNCHANGED <<moduleVars, envVars, storeVars, hist>>

\* await bridge.advertisement.showSticky() settles.
StickySettles(p) ==
  /\ call[p].pc = "sticky_await"
  /\ \E o \in Outcomes :
       Step(p, IF o = "resolve" THEN Return(call[p], [value |-> TRUE])
               ELSE Return(Did(call[p], "reject:showSticky"),
                           [value |-> FALSE]))
  /\ UNCHANGED <<moduleVars, envVars, storeVars, hist>>

\* openVKGroup(): isVKPlatform() is called for the log line, before any
\* check and outside the try block.
OpenVKGroup ==
  /\ LET c == Begin("openVKGroup") IN
       Sync(IF VKPlatform = "throw" THEN Throw(c)
            ELSE IF VKPlatform = "false" THEN Return(c, NoRet)
            ELSE Return(Did(c, "joinCommunity"), NoRet))
  /\ UNCHANGED <<moduleVars, envVars, storeVars, hist>>

\* shareVK()
ShareVK ==
  /\ LET c == Begin("shareVK") IN
       Sync(IF VKPlatform = "throw" THEN Throw(c)
            ELSE IF VKPlatform = "false" THEN Return(c, NoRet)
            ELSE Return(Did(c, "share"), NoRet))
  /\ UNCHANGED <<moduleVars, envVars, storeVars, hist>>

\* applyLanguageOnce(): bridge.platform.language is read inside try/catch.
ApplyLanguageOnce ==
  /\ languageApplied' = TRUE
  /\ Sync(Return(IF languageApplied THEN Begin("applyLanguageOnce")
                 ELSE Wrote(Begin("applyLanguageOnce"), "languageApplied"),
                 NoRet))
  /\ UNCHANGED <<bridge, vkBridge, isInitialized, gameReadySent,
                 lastInterstitialTime, lastShopRewardedTime, isAdsDisabled,
                 envVars, storeVars, hist>>

\* isYandexSDKReady()
IsYandexSDKReady ==
  /\ Sync(Return(Begin("isYandexSDKReady"), [value |-> isInitialized]))
  /\ UNCHANGED <<moduleVars, envVars, storeVars, hist>>

\* getYSDK()
GetYSDK ==
  /\ Sync(Return(Begin("getYSDK"), [bridge |-> bridge]))
  /\ UNCHANGED <<moduleVars, envVars, storeVars, hist>>

(***************************************************************************)
(* Specification of the advertisement functions                            *)
(***************************************************************************)
\* One call of initPlaygamaSDK at a time: the game awaits it at start-up.
InitOnce(p) ==
  /\ \A q \in Procs : call[q].op # "initPlaygamaSDK"
  /\ InitStart(p)

InitSteps(p) ==
  \/ InitOnce(p)
  \/ InitFound(p)
  \/ InitInitialized(p)
  \/ InitVk(p)

\* No call of waitForBridge is polling.  A firing of its timer changes
\* nothing but its own counter, so a call made between two firings leaves
\* the module as the same call made before the first of them does; the
\* specifications below let the other functions be called before the
\* polling starts and after it has ended.
Quiet == \A q \in Procs : call[q].pc # "init_poll"

\* A fresh browser: nothing in localStorage, which can be used.
FreshStore ==
  localStore = [access |-> TRUE, cloudSave |-> NoText,
                gameCoins |-> "absent", maxLevel |-> "absent"]

\* The Playgama script has loaded before the game starts.
Loaded == windowBridge # "undefined"

(***************************************************************************)
(* Specifications of the advertisement functions, with the clock running.  *)
(* They never touch localStorage.                                          *)
(***************************************************************************)
InitAds == Init /\ FreshStore

InterstitialSteps(p) ==
  \/ ShowInterstitialAd(p)
  \/ InterstitialSettles(p)

ShopSteps(p) ==
  \/ ShowShopRewardedAd(p)
  \/ ShopRewardedSettles(p)
  \/ ShopResult(p)

NextInterstitial ==
  \/ TickInterstitial
  \/ \E p \in Procs : InitSteps(p) \/ InitPoll(p)
  \/ Quiet /\ SetAdsDisabled
  \/ Quiet /\ IsAdsDisabledByPurchase
  \/ Quiet /\ \E p \in Procs : InterstitialSteps(p)

SpecInterstitial == InitAds /\ [][NextInterstitial]_vars

NextShop ==
  \/ TickShop
  \/ \E p \in Procs : InitSteps(p) \/ InitPoll(p)
  \/ Quiet /\ GetShopRewardedCooldown
  \/ Quiet /\ \E p \in Procs :
                \/ ShowRewardedAd(p)
                \/ RewardedSettles(p)
                \/ ShopSteps(p)

SpecShop == InitAds /\ [][NextShop]_vars

NextAds ==
  \/ Tick
  \/ \E p \in Procs : InitSteps(p) \/ InitPoll(p)
  \/ Quiet /\ \E p \in Procs : InterstitialSteps(p) \/ ShopSteps(p)

SpecAds == InitAds /\ [][NextAds]_vars

(***************************************************************************)
(* Specification of the module when the bridge never appears (development  *)
(* mode): every function, with the clock standing still.  Nothing is ever  *)
(* awaited from a bridge, so no call of the bridge settles.                *)
(***************************************************************************)
InitDev ==
  /\ Init
  /\ windowBridge = "undefined"
  /\ localStore.gameCoins = "absent"
  /\ localStore.maxLevel = "absent"

NextDev ==
  \/ \E p \in Procs : InitOnce(p) \/ InitPoll(p) \/ InitFound(p)
  \/ Quiet /\ SendGameReadyOnce
  \/ Quiet /\ GameplayStart
  \/ Quiet /\ GameplayStop
  \/ Quiet /\ GetShopRewardedCooldown
  \/ Quiet /\ SetAdsDisabled
  \/ Quiet /\ IsAdsDisabledByPurchase
  \/ Quiet /\ IsVKPlatform
  \/ Quiet /\ OpenVKGroup
  \/ Quiet /\ ShareVK
  \/ Quiet /\ ApplyLanguageOnce
  \/ Quiet /\ IsYandexSDKReady
  \/ Quiet /\ GetYSDK
  \/ Quiet /\ \E p \in Procs :
                \/ ShowInterstitialAd(p)
                \/ ShowRewardedAd(p)
                \/ ShowShopRewardedAd(p)
                \/ ShopResult(p)
                \/ SavePlayerData(p)
                \/ LoadPlayerData(p)
                \/ MakePurchase(p)
                \/ ShowStickyBanner(p)

SpecDev == InitDev /\ [][NextDev]_vars

(***************************************************************************)
(* Specification of the module with a bridge: the functions that call the  *)
(* bridge, with the clock standing still.                                  *)
(***************************************************************************)
InitLoaded == Init /\ Loaded /\ FreshStore

NextPlatform ==
  \/ SendGameReadyOnce
  \/ GameplayStart
  \/ GameplayStop
  \/ IsVKPlatform
  \/ OpenVKGroup
  \/ ShareVK
  \/ ApplyLanguageOnce
  \/ IsYandexSDKReady
  \/ GetYSDK
  \/ \E p \in Procs :
       \/ InitSteps(p)
       \/ ShowRewardedAd(p)
       \/ RewardedSettles(p)
       \/ MakePurchase(p)
       \/ PurchaseSettles(p)
       \/ ShowStickyBanner(p)
       \/ StickyVkSettles(p)
       \/ StickySettles(p)

SpecPlatform == InitLoaded /\ [][NextPlatform]_vars

NextFallback ==
  \E p \in Procs :
    \/ InitSteps(p)
    \/ bridge # "null" /\ ShowInterstitialAd(p)
    \/ InterstitialSettles(p)
    \/ bridge # "null" /\ ShowRewardedAd(p)
    \/ RewardedSettles(p)
    \/ bridge # "null" /\ SavePlainData(p)
    \/ SaveVkSettles(p)
    \/ SaveSetSettles(p)
    \/ bridge # "null" /\ LoadPlayerData(p)
    \/ LoadVkSettles(p)
    \/ LoadGetSettles(p)
    \/ bridge # "null" /\ ShowStickyBanner(p)
    \/ StickyVkSettles(p)
    \/ StickySettles(p)

SpecFallback == InitLoaded /\ [][NextFallback]_vars

(***************************************************************************)
(* Specification of the two timestamps: the functions that request an      *)
(* advertisement, and a function that has nothing to do with them, with    *)
(* the clock running.                                                      *)
(***************************************************************************)
NextTimestamps ==
  \/ TickWindow
  \/ \E p \in Procs : InitSteps(p) \/ InitPoll(p)
  \/ Quiet /\ \E p \in Procs :
                \/ InterstitialSteps(p)
                \/ ShowRewardedAd(p)
                \/ RewardedSettles(p)
                \/ ShopSteps(p)
                \/ MakePurchase(p)
                \/ PurchaseSettles(p)

SpecTimestamps == InitAds /\ [][NextTimestamps]_vars

(***************************************************************************)
(* Specification of the functions that use the VK bridge, interleaved      *)
(* with initPlaygamaSDK in any way.                                        *)
(***************************************************************************)
StorageSettles(p) ==
  \/ SaveVkSettles(p)
  \/ SaveSetSettles(p)
  \/ LoadVkSettles(p)
  \/ LoadGetSettles(p)

StickySteps(p) ==
  \/ ShowStickyBanner(p)
  \/ StickyVkSettles(p)
  \/ StickySettles(p)

NextVk ==
  \E p \in Procs :
    \/ InitSteps(p)
    \/ SavePlainData(p)
    \/ LoadPlayerData(p)
    \/ StorageSettles(p)
    \/ StickySteps(p)

SpecVk == InitLoaded /\ [][NextVk]_vars

(***************************************************************************)
(* Specification of the player data on the VK platform: every value        *)
(* savePlayerData is called with, and a browser that may hold the legacy   *)
(* keys.                                                                   *)
(***************************************************************************)
InitVkStorage == Init /\ PlatformIsVK(windowBridge)

\* The game awaits one call to the storage before it makes the next, and
\* makes them once the bridge is assigned.
StorageIdle ==
  /\ bridge # "null"
  /\ \A q \in Procs : call[q].op \notin {"savePlayerData", "loadPlayerData"}

NextVkStorage ==
  \E p \in Procs :
    \/ InitSteps(p)
    \/ StorageIdle /\ SavePlayerData(p)
    \/ StorageIdle /\ LoadPlayerData(p)
    \/ StorageSettles(p)

SpecVkStorage == InitVkStorage /\ [][NextVkStorage]_vars

(***************************************************************************)
(* Specification of the advertisements shown through a bridge, with the    *)
(* clock standing still.  The bridge settles every request it was sent:    *)
(* the actions that settle one are weakly fair.                            *)
(***************************************************************************)
NextBracket ==
  \E p \in Procs :
    \/ InitSteps(p)
    \/ InterstitialSteps(p)
    \/ ShowRewardedAd(p)
    \/ RewardedSettles(p)
    \/ ShopSteps(p)

BridgeSettles ==
  \A p \in Procs :
    /\ WF_vars(InterstitialSettles(p))
    /\ WF_vars(RewardedSettles(p))
    /\ WF_vars(ShopRewardedSettles(p))

SpecBracket == InitLoaded /\ [][NextBracket]_vars /\ BridgeSettles

(***************************************************************************)
(* Specification of initPlaygamaSDK alone, called at any time, also while  *)
(* another call of it is waiting, with a Playgama script that may load at  *)
(* any moment or never.  The timer fires as long as it is set, and the     *)
(* requests to the bridges settle.                                         *)
(***************************************************************************)
NextWait ==
  \/ BridgeAppears
  \/ \E p \in Procs :
       \/ InitStart(p)
       \/ InitPoll(p)
       \/ InitFound(p)
       \/ InitInitialized(p)
       \/ InitVk(p)

InitSettles ==
  \A p \in Procs :
    /\ WF_vars(InitPoll(p))
    /\ WF_vars(InitFound(p))
    /\ WF_vars(InitInitialized(p))
    /\ WF_vars(InitVk(p))

SpecWait == InitAds /\ [][NextWait]_vars /\ InitSettles

(***************************************************************************)
(* Claims about the advertisement functions                                *)
(***************************************************************************)
\* The calls one can see in a state: those in flight and the one that has
\* just returned.
Calls == {done} \cup {call[p] : p \in Procs}

ShownTrue(c) == c.out = "value" /\ c.ret = [shown |-> TRUE]

ShownFalse(c) == c.out = "value" /\ c.ret = [shown |-> FALSE]

\* C1: after a showInterstitialAd call has returned {shown:true}, with or
\* without a bridge, every showInterstitialAd call started less than
\* INTERSTITIAL_COOLDOWN ms later returns {shown:false} and does not invoke
\* bridge.advertisement.showInterstitial.
C1_InterstitialCooldownBlocksRepeats ==
  \A c \in Calls :
    c.op = "showInterstitialAd" /\ c.g.afterShown
      => ShownFalse(c) /\ ~Has(c, "showInterstitial")

\* C2: after a showShopRewardedAd call has returned rewarded:true, every
\* showShopRewardedAd call started less than SHOP_REWARDED_COOLDOWN ms later
\* returns {rewarded:false, cooldown:true, remainingTime >= 1} at once,
\* without invoking showRewarded and without sending a gameplay message.
C2_ShopCooldownBlocksRepeats ==
  \A c \in Calls :
    c.op = "showShopRewardedAd" /\ c.g.afterShop
      => /\ c.out = "value"
         /\ c.ret.rewarded = FALSE
         /\ c.ret.cooldown = TRUE
         /\ c.ret.remainingTime >= 1
         /\ c.ev = <<>>

\* A shop call made one millisecond before the window ends is turned away.
C2_Witness ==
  /\ done.op = "showShopRewardedAd"
  /\ done.g.afterShop
  /\ done.out = "value"
  /\ done.ret.cooldown
  /\ now - lastShopRewardedTime = SHOP_REWARDED_COOLDOWN - 1

\* C3: a showInterstitialAd call made with ads not disabled and at least
\* INTERSTITIAL_COOLDOWN ms after the last recorded interstitial (or with
\* none recorded since load) is not rejected by the cooldown: it invokes
\* bridge.advertisement.showInterstitial or, without a bridge, returns
\* {shown:true}; and a showShopRewardedAd call made at least
\* SHOP_REWARDED_COOLDOWN ms after the last rewarded shop ad (or with none
\* since load) returns cooldown:false and remainingTime 0.
C3_CooldownsAllowAfterWindow ==
  \A c \in Calls :
    /\ c.op = "showInterstitialAd" /\ ~c.g.adsOff /\ c.g.intClear
         => IF c.g.dev THEN ShownTrue(c) ELSE Has(c, "showInterstitial")
    /\ c.op = "showShopRewardedAd" /\ c.g.shopClear /\ c.out = "value"
         => c.ret.cooldown = FALSE /\ c.ret.remainingTime = 0

\* An interstitial requested exactly INTERSTITIAL_COOLDOWN ms after the
\* last one was recorded reaches the bridge.
C3_Witness ==
  \E p \in Procs :
    /\ call[p].op = "showInterstitialAd"
    /\ call[p].g.intClear
    /\ hist.intResolved >= 0
    /\ call[p].t0 = hist.intResolved + INTERSTITIAL_COOLDOWN
    /\ Has(call[p], "showInterstitial")

\* C8 as claimed: any two invocations of showInterstitial that both resolve
\* successfully are started at least INTERSTITIAL_COOLDOWN ms apart, also
\* when the calls overlap.
C8_AnyTwoShownAreApart ==
  ShownTrue(done) /\ Has(done, "showInterstitial") /\ done.g.prevEnd >= 0
    => Abs(done.t0 - done.g.prevEnd) >= INTERSTITIAL_COOLDOWN

\* C8 as amended: two invocations of showInterstitial that both resolve
\* successfully, the later started after the earlier had resolved, are
\* started at least INTERSTITIAL_COOLDOWN ms apart.
C8_SuccessiveShownAreApart ==
  ShownTrue(done) /\ Has(done, "showInterstitial") /\ done.g.prev >= 0
    => done.t0 - done.g.prev >= INTERSTITIAL_COOLDOWN

\* A second interstitial is shown after an earlier one had resolved.
C8_Witness ==
  ShownTrue(done) /\ Has(done, "showInterstitial") /\ done.g.prev >= 0

\* C10: a showInterstitialAd call made while the ads-disabled flag is true
\* returns {shown:false} at once, sends no message, does not invoke
\* showInterstitial and assigns nothing; isAdsDisabledByPurchase returns the
\* value last passed to setAdsDisabled (false when there was none); and
\* when that value is false an interstitial is turned away by the cooldown
\* alone.
C10_AdsDisabledGate ==
  \A c \in Calls :
    /\ c.op = "showInterstitialAd" /\ c.g.adsOff
         => ShownFalse(c) /\ c.ev = <<>> /\ c.wr = {}
    /\ c.op = "isAdsDisabledByPurchase"
         => c.out = "value" /\ c.ret = [value |-> c.g.lastSet]
    /\ c.op = "showInterstitialAd" /\ ~c.g.lastSet /\ c.g.intClear
         => IF c.g.dev THEN ShownTrue(c) ELSE Has(c, "showInterstitial")

\* With a bridge and no cooldown running, the flag alone turns the call away.
C10_Witness ==
  /\ done.op = "showInterstitialAd"
  /\ done.g.adsOff
  /\ done.g.intClear
  /\ ~done.g.dev
  /\ hist.intResolved >= 0

(***************************************************************************)
(* Claims about storage, failures and development mode                     *)
(***************************************************************************)
\* Every property of d is a value that JSON represents.
JsonFaithful(d) == \A k \in Fields : d.f[k] \notin {"NaN", "undefined"}

LoadedWithoutBridge(c) == c.op = "loadPlayerData" /\ c.g.dev

\* C4 as claimed: with bridge null, for every data object d, when
\* savePlayerData(d) has returned true the next loadPlayerData, with no save
\* in between, returns an object equal to d; and loadPlayerData with nothing
\* stored under cloudSave returns {}.
C4_RoundTripEveryObject ==
  /\ LoadedWithoutBridge(done) /\ done.g.saved.kind = "object"
       => done.out = "value" /\ done.ret = done.g.saved
  /\ LoadedWithoutBridge(done) /\ localStore.cloudSave = NoText
       => done.out = "value" /\ done.ret = EmptyObj

\* C4 as amended: with bridge null, for every data object d whose
\* properties JSON represents (none is NaN or undefined), when
\* savePlayerData(d) has returned true the next loadPlayerData, with no save
\* in between, returns an object equal to d; and loadPlayerData with nothing
\* stored under cloudSave returns {}.
C4_RoundTripJsonData ==
  /\ LoadedWithoutBridge(done) /\ done.g.saved.kind = "object"
       /\ JsonFaithful(done.g.saved)
       => done.out = "value" /\ done.ret = done.g.saved
  /\ LoadedWithoutBridge(done) /\ localStore.cloudSave = NoText
       => done.out = "value" /\ done.ret = EmptyObj

\* A player's data, saved without a bridge, has been loaded again.
C4_Witness ==
  /\ LoadedWithoutBridge(done)
  /\ done.g.saved.kind = "object"
  /\ ~IsEmptyObj(done.g.saved)
  /\ JsonFaithful(done.g.saved)
  /\ done.ret = done.g.saved

\* C5: no exported function throws or returns a rejected promise, whatever
\* external call fails and however it fails.
C5_NoOperationThrows == \A c \in Calls : c.out # "throw"

\* The value c returned when the call e of the bridge was rejected.
Rejected(c, op, e) == c.op = op /\ Has(c, e)

\* C6: with a bridge, when the bridge rejects the call, showInterstitialAd
\* returns {shown:false}, showRewardedAd {rewarded:false}, savePlayerData
\* false, loadPlayerData {} and showStickyBanner false; and loadPlayerData
\* returns {} when bridge.storage.get resolves with a falsy value.
C6_FallbackValues ==
  \A c \in Calls :
    /\ Rejected(c, "showInterstitialAd", "reject:showInterstitial")
         => ShownFalse(c)
    /\ Rejected(c, "showRewardedAd", "reject:showRewarded")
         => c.out = "value" /\ c.ret = [rewarded |-> FALSE]
    /\ Rejected(c, "savePlayerData", "reject:storage.set")
         => c.out = "value" /\ c.ret = [value |-> FALSE]
    /\ Rejected(c, "loadPlayerData", "reject:storage.get")
         => c.out = "value" /\ c.ret = EmptyObj
    /\ Rejected(c, "showStickyBanner", "reject:showSticky")
         => c.out = "value" /\ c.ret = [value |-> FALSE]
    /\ Rejected(c, "loadPlayerData", "falsy:storage.get")
         => c.out = "value" /\ c.ret = EmptyObj

\* bridge.storage.get() resolved with a falsy value, after the VK storage
\* had rejected the request.
C6_Witness ==
  /\ Rejected(done, "loadPlayerData", "falsy:storage.get")
  /\ Has(done, "reject:VKWebAppStorageGet")
  /\ done.out = "value"

\* What a function returns in development mode.
DevValue(c) ==
  CASE c.op = "initPlaygamaSDK" -> c.ret = [bridge |-> "null"]
    [] c.op = "showRewardedAd" -> c.ret = [rewarded |-> TRUE]
    [] c.op = "makePurchase" -> c.ret = [success |-> TRUE, bonuses |-> "{}"]
    [] c.op = "isVKPlatform" -> c.ret = [value |-> FALSE]
    [] c.op = "showStickyBanner" -> c.ret = [value |-> FALSE]
    [] c.op = "getYSDK" -> c.ret = [bridge |-> "null"]
    [] c.op = "isYandexSDKReady" -> c.ret = [value |-> hist.initNull]
    [] c.op = "loadPlayerData" ->
         c.ret = IF localStore.access THEN ParseSaved(localStore.cloudSave)
                 ELSE EmptyObj
    [] c.op = "savePlayerData" ->
         c.ret.value => localStore.cloudSave = JSONstringify(c.data)
    [] OTHER -> TRUE

\* C7: while the bridge has not appeared, initPlaygamaSDK returns null and
\* makes isYandexSDKReady() true, no method of bridge or vkBridge is
\* invoked by any call, and every function returns its development-mode
\* value; player data go to localStorage under cloudSave and nowhere else.
C7_DevModeTolerance ==
  windowBridge = "undefined" =>
    /\ bridge = "null" /\ ~vkBridge
    /\ hist.initNull => isInitialized
    /\ \A c \in Calls : c.ev = <<>> /\ c.out # "throw"
    /\ done.op # "none" => done.out = "value" /\ DevValue(done)
    /\ cloud = Undefined
    /\ \A k \in Fields : vkCloud[k] = ""

\* After initPlaygamaSDK gave up waiting and returned null, a purchase
\* was made.
C7_Witness ==
  /\ windowBridge = "undefined"
  /\ hist.initNull
  /\ done.op = "makePurchase"
  /\ done.g.nullInit
  /\ done.out = "value"

\* C9: after initPlaygamaSDK has returned null, getYSDK() returns null and
\* no later call invokes a method of the bridge.
C9_NullInitMeansDevMode ==
  /\ done.op = "getYSDK" /\ done.g.nullInit
       => done.ret = [bridge |-> "null"]
  /\ \A c \in Calls :
       c.op # "initPlaygamaSDK" /\ c.g.nullInit => c.ev = <<>>

(***************************************************************************)
(* Claims about messages, timestamps, the VK bridge and waitForBridge      *)
(***************************************************************************)
\* C11: game_ready is sent to the bridge at most once; and once the bridge
\* has been initialized successfully and sendGameReadyOnce has been called
\* after that, game_ready has been sent exactly once, also when
\* sendGameReadyOnce had been called before the initialization completed.
C11_GameReadyExactlyOnce ==
  /\ hist.gameReady <= 1
  /\ done.op = "sendGameReadyOnce" /\ hist.initOk => hist.gameReady = 1

AdOps == {"showInterstitialAd", "showRewardedAd", "showShopRewardedAd"}

AdRequests == {"showInterstitial", "showRewarded"}

\* The call is awaiting an advertisement of the bridge.
AwaitsAd(c) == c.pc \in {"int_await", "rew_await", "shop_rew_await"}

\* The request of c for an advertisement has settled.
AdSettled(c) ==
  /\ \E i \in 1..Len(c.ev) : c.ev[i] \in AdRequests
  /\ ~AwaitsAd(c)

\* gameplay_stopped goes out right before the request, and gameplay_started
\* is the last thing sent once the request has settled.
Bracketed(c) ==
  /\ \A i \in 1..Len(c.ev) :
       c.ev[i] \in AdRequests => i > 1 /\ c.ev[i - 1] = "gameplay_stopped"
  /\ AdSettled(c) => c.ev[Len(c.ev)] = "gameplay_started"

\* The advertisement calls have sent as many gameplay_started as
\* gameplay_stopped when none of them is awaiting the bridge.
Balanced ==
  (\A p \in Procs : ~AwaitsAd(call[p])) => hist.paused = 0

\* The call in slot p has sent gameplay_stopped and not yet
\* gameplay_started.
Pausing(p) == AwaitsAd(call[p]) /\ Has(call[p], "gameplay_stopped")

\* The call that was in slot p has sent gameplay_started.
Resumed(p) ==
  \/ call[p].pc = "shop_result" /\ Has(call[p], "gameplay_started")
  \/ call[p].pc = "idle" /\ done.op \in AdOps /\ Has(done, "gameplay_started")

\* C12: for every advertisement requested from the bridge,
\* gameplay_stopped is sent before the request and gameplay_started after
\* it has settled, on success and on failure; the two messages are equal in
\* number whenever no advertisement call is in flight; and, the bridge
\* settling every request, each gameplay_stopped is followed by
\* gameplay_started.
C12_EveryAdIsBracketed ==
  /\ [](\A c \in Calls : c.op \in AdOps => Bracketed(c))
  /\ []Balanced
  /\ \A p \in Procs : Pausing(p) ~> Resumed(p)

\* What holds of the bracket: the same for every advertisement requested
\* from a bridge that has the platform member; a bridge without it is sent
\* neither message.
AdIsBracketedOnPlatform ==
  /\ [](\A c \in Calls :
          c.op \in AdOps =>
            IF HasPlatform(bridge) THEN Bracketed(c)
            ELSE ~Has(c, "gameplay_stopped") /\ ~Has(c, "gameplay_started"))
  /\ []Balanced
  /\ \A p \in Procs : Pausing(p) ~> Resumed(p)

\* The call that has just returned is a showInterstitialAd whose request
\* the bridge resolved.
InterstitialResolved(c) ==
  /\ c.op = "showInterstitialAd"
  /\ ShownTrue(c)
  /\ Has(c, "showInterstitial")
  /\ ~Has(c, "reject:showInterstitial")

\* The call that has just returned is a showShopRewardedAd that obtained
\* rewarded:true.
ShopRewarded(c) ==
  c.op = "showShopRewardedAd" /\ c.out = "value" /\ c.ret.rewarded

\* The call returned rewarded:false.
NotRewarded(c) ==
  /\ c.op \in {"showRewardedAd", "showShopRewardedAd"}
  /\ c.out = "value"
  /\ c.ret.rewarded = FALSE

\* C13: lastInterstitialTime changes only in the step in which
\* showInterstitial resolves successfully, and lastShopRewardedTime only in
\* the step in which showShopRewardedAd obtains rewarded:true; every other
\* step, of any function, and every call that returns {shown:false} or
\* rewarded:false leaves both as they were.
C13_OnlyShownAdsStartCooldown ==
  [][/\ lastInterstitialTime' # lastInterstitialTime
          => InterstitialResolved(done')
     /\ lastShopRewardedTime' # lastShopRewardedTime
          => ShopRewarded(done')
     /\ (ShownFalse(done') \/ NotRewarded(done'))
          => /\ lastInterstitialTime' = lastInterstitialTime
             /\ lastShopRewardedTime' = lastShopRewardedTime]_vars

\* The bridge rejected an interstitial inside no cooldown window, after an
\* earlier one had been recorded: the record is the earlier one's.
C13_Witness ==
  /\ done.op = "showInterstitialAd"
  /\ Has(done, "reject:showInterstitial")
  /\ hist.intResolved >= 0
  /\ lastInterstitialTime = hist.intResolved
  /\ now - lastInterstitialTime >= INTERSTITIAL_COOLDOWN

\* The call is awaiting an answer of the VK bridge to a storage or banner
\* request.
AwaitsVk(c) == c.pc \in {"save_vk", "load_vk", "sticky_vk"}

VkRequests == {"VKWebAppStorageSet", "VKWebAppStorageGet",
               "VKWebAppShowBannerAd"}

\* The call has sent a request to the VK bridge.
VkSent(c) == \E i \in 1..Len(c.ev) : c.ev[i] \in VkRequests

\* C14: no VKWebAppStorageSet, VKWebAppStorageGet or VKWebAppShowBannerAd
\* is sent unless the platform is VK and VKWebAppInit has resolved before;
\* and once VKWebAppInit has been rejected vkBridge is null, and the
\* storage calls made from then on go through bridge.storage.
C14_VkBridgeOnlyAfterInit ==
  /\ \A c \in Calls :
       AwaitsVk(c) /\ VkSent(c)
         => PlatformIsVK(bridge) /\ hist.vkInit = "resolved"
  /\ hist.vkInit = "rejected" => ~vkBridge
  /\ \A c \in Calls :
       c.g.vkInit = "rejected"
         => /\ ~VkSent(c)
            /\ Has(c, "storage.set") \/ Has(c, "storage.get")

(***************************************************************************)
(* Claims about the player data on the VK platform                         *)
(***************************************************************************)
\* The VK storage holds every property of d that is not undefined.
VkAccepted(d) ==
  /\ d.kind = "object"
  /\ \A k \in Fields : IsSent(d, k) => vkCloud[k] = VkText(k, d.f[k])

\* The storage of the bridge holds d.
BridgeAccepted(d) == cloud = d

\* localStorage holds d.
LocalAccepted(d) == localStore.cloudSave = JSONstringify(d)

SaveReturned(c) == c.op = "savePlayerData" /\ c.out = "value"

\* C15: a savePlayerData(data) call that sent its VKWebAppStorageSet
\* requests returns true without calling bridge.storage.set when none was
\* rejected; when one was rejected it calls bridge.storage.set(data) and
\* returns true iff that call succeeds; a loadPlayerData call whose
\* VKWebAppStorageGet was rejected calls bridge.storage.get; and when
\* savePlayerData returns true, one storage holds the complete data.
C15_VkSaveFallback ==
  /\ SaveReturned(done) /\ Has(done, "VKWebAppStorageSet")
       => IF Has(done, "reject:VKWebAppStorageSet")
            THEN /\ Has(done, "storage.set")
                 /\ done.ret = [value |-> ~Has(done, "reject:storage.set")]
            ELSE /\ ~Has(done, "storage.set")
                 /\ done.ret = [value |-> TRUE]
  /\ \A c \in Calls :
       c.op = "loadPlayerData" /\ Has(c, "reject:VKWebAppStorageGet")
         => Has(c, "storage.get")
  /\ SaveReturned(done) /\ done.ret = [value |-> TRUE]
       => \/ ~Has(done, "storage.set") /\ ~done.g.dev /\ VkAccepted(done.data)
          \/ Has(done, "storage.set") /\ BridgeAccepted(done.data)
          \/ done.g.dev /\ LocalAccepted(done.data)

\* savePlayerData returned true although a VKWebAppStorageSet request was
\* rejected after another had been stored: bridge.storage.set took the
\* data.
C15_Witness ==
  /\ SaveReturned(done) /\ done.ret = [value |-> TRUE]
  /\ Has(done, "reject:VKWebAppStorageSet")
  /\ vkCloud["coins"] = "7" /\ vkCloud["noAds"] = ""
  /\ BridgeAccepted(done.data)

\* A loadPlayerData call that found the VK cloud empty and legacy values
\* in localStorage: it has made syncData, and awaited
\* savePlayerData(syncData).
Synced(c) ==
  /\ c.op = "loadPlayerData" /\ c.out = "value"
  /\ c.data # NoRet

\* A loadPlayerData call that returned what VKWebAppStorageGet answered.
LoadedFromVk(c) ==
  /\ c.op = "loadPlayerData" /\ c.out = "value"
  /\ c.data = NoRet
  /\ Has(c, "VKWebAppStorageGet")
  /\ ~Has(c, "reject:VKWebAppStorageGet") /\ ~Has(c, "storage.get")

\* What the next loadPlayerData finds in a cloud: the VK storage, or the
\* storage of the bridge.
InCloud(d) ==
  \/ /\ VkParse(vkCloud).f["coins"] = d.f["coins"]
     /\ VkParse(vkCloud).f["maxLevel"] = d.f["maxLevel"]
  \/ BridgeAccepted(d)

\* C16: when loadPlayerData has found none of the five keys in the VK cloud
\* and legacy gameCoins or maxLevel in localStorage, it returns those
\* values, parsed, and when it returns they are stored in the cloud; when
\* the cloud holds one of the keys it returns the cloud's values and
\* writes nothing.
C16_LocalToCloudSync ==
  /\ Synced(done)
       => /\ done.ret = SyncData(localStore.gameCoins, localStore.maxLevel)
          /\ InCloud(done.ret)
  /\ LoadedFromVk(done)
       => /\ done.ret = VkParse(vkCloud)
          /\ ~Has(done, "VKWebAppStorageSet") /\ ~Has(done, "storage.set")

(***************************************************************************)
(* Claims about waitForBridge                                              *)
(***************************************************************************)
\* The call in slot p is polling: the timer of its waitForBridge is set.
Polling(p) == call[p].pc = "init_poll"

\* waitForBridge of the call c has resolved with v after n polls.
ResolvedWith(c, v, n) ==
  c.pc = "init_found" /\ c.tmp = v /\ c.attempts = n

\* A call of initPlaygamaSDK in slot p goes on, in this step, after its
\* waitForBridge has resolved.
GoesOn(p) ==
  /\ call[p].op = "initPlaygamaSDK" /\ ~Polling(p)
  /\ call'[p].op = "initPlaygamaSDK"

\* C17: waitForBridge resolves at once with window.bridge when it is
\* defined; otherwise each poll counts, the first poll that finds
\* window.bridge defined resolves with it, the 30th resolves with null when
\* it finds none, and no other poll resolves; once resolved the timer is
\* cleared and the promise is not resolved again; every waitForBridge
\* resolves, and every initPlaygamaSDK call completes when the requests to
\* the bridges settle.
C17_WaitForBridgeTerminates ==
  /\ [][\A p \in Procs :
          /\ Free(p) /\ call'[p].op = "initPlaygamaSDK"
               => IF windowBridge # "undefined"
                    THEN ResolvedWith(call'[p], windowBridge, 0)
                  ELSE call'[p].pc = "init_poll" /\ call'[p].attempts = 0
          /\ Polling(p) /\ call'[p] # call[p]
               => LET n == call[p].attempts + 1 IN
                    IF windowBridge # "undefined"
                      THEN ResolvedWith(call'[p], windowBridge, n)
                    ELSE IF n = maxAttempts
                      THEN ResolvedWith(call'[p], "null", maxAttempts)
                    ELSE /\ call'[p].pc = "init_poll"
                         /\ call'[p].attempts = n
          /\ GoesOn(p)
               => /\ call'[p].pc # "init_poll"
                  /\ call'[p].attempts = call[p].attempts]_vars
  /\ [](\A p \in Procs : Polling(p) => call[p].attempts < maxAttempts)
  /\ \A p \in Procs : Polling(p) ~> ~Polling(p)
  /\ \A p \in Procs : (call[p].op = "initPlaygamaSDK") ~> Free(p)

\* An initPlaygamaSDK call has returned null after its waitForBridge polled
\* 30 times for a bridge that has not appeared.
C17_Witness ==
  /\ done.op = "initPlaygamaSDK" /\ done.out = "value"
  /\ done.attempts = maxAttempts
  /\ done.ret = [bridge |-> "null"]
  /\ windowBridge = "undefined"

=============================================================================
